---- MODULE Spec2Model ----
(***************************************************************************)
(* A model of the intervals-general crate: the validated BoundPair, the    *)
(* eleven-variant Interval and its operations (contains, intersect,        *)
(* complement, bound comparisons), over a small scalar domain T.           *)
(*                                                                         *)
(* An operator written just before the one that models a piece of code,    *)
(* and named after it with a suffix, is that code with one plausible slip; *)
(* the properties below are expected to tell the two apart.                *)
(*                                                                         *)
(* T is either a totally ordered integer type ("u32") or a partially       *)
(* ordered floating point type ("f64") that holds one incomparable value,  *)
(* NaN.  The comparison operators of T are modelled by what Rust's         *)
(* PartialOrd / PartialEq do on such a type.                               *)
(***************************************************************************)
EXTENDS Integers, Sequences, FiniteSets, TLC

VARIABLES T, i1, i2, call

vars == <<T, i1, i2, call>>

\* Largest scalar of the modelled domain: the domain holds 0..MaxVal.
MaxVal == 3

\* Most calls of next() made on one complement iterator.
MaxNext == 3

\* Width in bits of the bounded integer domains.
Bits == 3

\* The incomparable scalar of the floating point domain (f64::NAN); it lies
\* outside every integer domain.
NaN == -1000

Types == {"u32", "f64"}

\* The integer domains modelled with their full range: an unsigned and a
\* signed integer of Bits bits
IntTypes == {"unsigned", "signed"}

\* T::MIN and T::MAX of an integer domain of Bits bits
MinValue(t) == IF t = "signed" THEN -(2 ^ (Bits - 1)) ELSE 0

MaxValue(t) == IF t = "signed" THEN 2 ^ (Bits - 1) - 1 ELSE 2 ^ Bits - 1

\* How the crate is built: overflow checks on (debug) or off (release)
Builds == {"debug", "release"}

Values(t) ==
    IF t = "f64" THEN (0..MaxVal) \cup {NaN}
    ELSE IF t \in IntTypes THEN MinValue(t)..MaxValue(t)
    ELSE 0..MaxVal

\* ------------------------------------------------------------------------
\* Option<X> and std::cmp::Ordering

None == [is_some |-> FALSE]

Some(v) == [is_some |-> TRUE, value |-> v]

\* ------------------------------------------------------------------------
\* T: PartialOrd.  partial_cmp is undefined (None) as soon as one side is
\* NaN; <, <=, >, >= and == are then all false.

partial_cmp(a, b) ==
    IF a = NaN \/ b = NaN THEN None
    ELSE IF a < b THEN Some("Less")
    ELSE IF a > b THEN Some("Greater")
    ELSE Some("Equal")

lt(a, b) == partial_cmp(a, b) = Some("Less")

le(a, b) == partial_cmp(a, b) \in {Some("Less"), Some("Equal")}

gt(a, b) == partial_cmp(a, b) = Some("Greater")

ge(a, b) == partial_cmp(a, b) \in {Some("Greater"), Some("Equal")}

eq(a, b) == partial_cmp(a, b) = Some("Equal")

\* ------------------------------------------------------------------------
\* BoundPair

\* The struct literal BoundPair { left, right }: no check.
BoundPair(l, r) == [left |-> l, right |-> r]

BoundPair_new_le(l, r) ==
    IF le(l, r) THEN Some(BoundPair(l, r)) ELSE None

\* BoundPair::new
BoundPair_new(l, r) ==
    IF partial_cmp(l, r) = Some("Less") THEN Some(BoundPair(l, r)) ELSE None

\* BoundPair::left, BoundPair::right
left(bp) == bp.left

right(bp) == bp.right

\* ------------------------------------------------------------------------
\* Interval<T>: the eleven variants

TwoSided == {"Closed", "Open", "LeftHalfOpen", "RightHalfOpen"}

RightOnly == {"UnboundedClosedRight", "UnboundedOpenRight"}

LeftOnly == {"UnboundedClosedLeft", "UnboundedOpenLeft"}

Bounded(v, bp) == [variant |-> v, bound_pair |-> bp]

Closed(bp) == Bounded("Closed", bp)

Open(bp) == Bounded("Open", bp)

LeftHalfOpen(bp) == Bounded("LeftHalfOpen", bp)

RightHalfOpen(bp) == Bounded("RightHalfOpen", bp)

UnboundedClosedRight(r) == [variant |-> "UnboundedClosedRight", right |-> r]

UnboundedOpenRight(r) == [variant |-> "UnboundedOpenRight", right |-> r]

UnboundedClosedLeft(l) == [variant |-> "UnboundedClosedLeft", left |-> l]

UnboundedOpenLeft(l) == [variant |-> "UnboundedOpenLeft", left |-> l]

Singleton(a) == [variant |-> "Singleton", at |-> a]

Unbounded == [variant |-> "Unbounded"]

Empty == [variant |-> "Empty"]

\* ------------------------------------------------------------------------
\* enum Bound<T> { None, Unbounded, Open(T), Closed(T) }

BNone == [kind |-> "None"]

BUnbounded == [kind |-> "Unbounded"]

BOpen(v) == [kind |-> "Open", val |-> v]

BClosed(v) == [kind |-> "Closed", val |-> v]

HasVal(b) == b.kind \in {"Open", "Closed"}

\* Interval::left_bound
left_bound(self) ==
    CASE self.variant = "Empty" -> BNone
      [] self.variant = "Singleton" -> BClosed(self.at)
      [] self.variant \in {"Unbounded"} \cup RightOnly -> BUnbounded
      [] self.variant \in {"Closed", "RightHalfOpen"} ->
            BClosed(self.bound_pair.left)
      [] self.variant = "UnboundedClosedLeft" -> BClosed(self.left)
      [] self.variant \in {"Open", "LeftHalfOpen"} ->
            BOpen(self.bound_pair.left)
      [] self.variant = "UnboundedOpenLeft" -> BOpen(self.left)

\* Interval::right_bound
right_bound(self) ==
    CASE self.variant = "Empty" -> BNone
      [] self.variant = "Singleton" -> BClosed(self.at)
      [] self.variant \in {"Unbounded"} \cup LeftOnly -> BUnbounded
      [] self.variant \in {"Closed", "LeftHalfOpen"} ->
            BClosed(self.bound_pair.right)
      [] self.variant = "UnboundedClosedRight" -> BClosed(self.right)
      [] self.variant \in {"Open", "RightHalfOpen"} ->
            BOpen(self.bound_pair.right)
      [] self.variant = "UnboundedOpenRight" -> BOpen(self.right)

\* ------------------------------------------------------------------------
\* Interval::contains

left_contained_strict_mixed(sb, ob) ==
    CASE sb.kind = "None" -> FALSE
      [] sb.kind # "None" /\ ob.kind = "None" -> TRUE
      [] sb.kind = "Unbounded" /\ ob.kind # "None" -> TRUE
      [] HasVal(sb) /\ ob.kind = "Unbounded" -> FALSE
      [] HasVal(sb) /\ HasVal(ob) -> lt(sb.val, ob.val)

left_contained_bounded_holds_unbounded(sb, ob) ==
    CASE sb.kind = "None" -> FALSE
      [] sb.kind # "None" /\ ob.kind = "None" -> TRUE
      [] sb.kind = "Unbounded" /\ ob.kind # "None" -> TRUE
      [] HasVal(sb) /\ ob.kind = "Unbounded" -> TRUE
      [] HasVal(sb) /\ HasVal(ob) ->
            IF sb.kind = "Open" /\ ob.kind = "Closed"
            THEN lt(sb.val, ob.val)
            ELSE le(sb.val, ob.val)

\* The match on (self_left_bound, other_left_bound)
left_contained(sb, ob) ==
    CASE sb.kind = "None" -> FALSE
      [] sb.kind # "None" /\ ob.kind = "None" -> TRUE
      [] sb.kind = "Unbounded" /\ ob.kind # "None" -> TRUE
      [] HasVal(sb) /\ ob.kind = "Unbounded" -> FALSE
      [] HasVal(sb) /\ HasVal(ob) ->
            IF sb.kind = "Open" /\ ob.kind = "Closed"
            THEN lt(sb.val, ob.val)
            ELSE le(sb.val, ob.val)

right_contained_like_left(sb, ob) ==
    CASE sb.kind = "None" -> FALSE
      [] sb.kind # "None" /\ ob.kind = "None" -> TRUE
      [] sb.kind = "Unbounded" /\ ob.kind # "None" -> TRUE
      [] HasVal(sb) /\ ob.kind = "Unbounded" -> FALSE
      [] HasVal(sb) /\ HasVal(ob) ->
            IF sb.kind = "Open" /\ ob.kind = "Closed"
            THEN gt(sb.val, ob.val)
            ELSE ge(sb.val, ob.val)

right_contained_lax_mixed(sb, ob) ==
    CASE sb.kind = "None" -> FALSE
      [] sb.kind # "None" /\ ob.kind = "None" -> FALSE
      [] sb.kind = "Unbounded" /\ ob.kind # "None" -> TRUE
      [] HasVal(sb) /\ ob.kind = "Unbounded" -> FALSE
      [] HasVal(sb) /\ HasVal(ob) -> ge(sb.val, ob.val)

\* The match on (self_right_bound, other_right_bound)
right_contained(sb, ob) ==
    CASE sb.kind = "None" -> FALSE
      [] sb.kind # "None" /\ ob.kind = "None" -> FALSE
      [] sb.kind = "Unbounded" /\ ob.kind # "None" -> TRUE
      [] HasVal(sb) /\ ob.kind = "Unbounded" -> FALSE
      [] HasVal(sb) /\ HasVal(ob) ->
            IF sb.kind = "Open" /\ ob.kind = "Closed"
            THEN gt(sb.val, ob.val)
            ELSE ge(sb.val, ob.val)

contains(self, other) ==
    /\ left_contained(left_bound(self), left_bound(other))
    /\ right_contained(right_bound(self), right_bound(other))

\* ------------------------------------------------------------------------
\* Interval::left_partial_cmp and Interval::right_partial_cmp

\* Closed/Closed and Open/Open: by value, Equal when neither < nor > holds.
cmp_same_kind(x, y) ==
    IF lt(x, y) THEN Some("Less")
    ELSE IF gt(x, y) THEN Some("Greater")
    ELSE Some("Equal")

left_bound_cmp_strict_closed_open(sb, ob) ==
    CASE sb.kind = "None" \/ ob.kind = "None" -> None
      [] sb.kind = "Unbounded" /\ ob.kind = "Unbounded" -> Some("Equal")
      [] sb.kind = "Unbounded" /\ HasVal(ob) -> Some("Less")
      [] HasVal(sb) /\ ob.kind = "Unbounded" -> Some("Greater")
      [] sb.kind = "Closed" /\ ob.kind = "Closed" -> cmp_same_kind(sb.val, ob.val)
      [] sb.kind = "Closed" /\ ob.kind = "Open" ->
            IF lt(sb.val, ob.val) THEN Some("Less") ELSE Some("Greater")
      [] sb.kind = "Open" /\ ob.kind = "Closed" ->
            IF lt(sb.val, ob.val) THEN Some("Less") ELSE Some("Greater")
      [] sb.kind = "Open" /\ ob.kind = "Open" -> cmp_same_kind(sb.val, ob.val)

left_bound_cmp_other_none_as_unbounded(sb, ob) ==
    CASE sb.kind = "None" -> None
      [] sb.kind = "Unbounded" /\ ob.kind \in {"Unbounded", "None"} ->
            Some("Equal")
      [] sb.kind = "Unbounded" /\ HasVal(ob) -> Some("Less")
      [] HasVal(sb) /\ ob.kind \in {"Unbounded", "None"} -> Some("Greater")
      [] sb.kind = "Closed" /\ ob.kind = "Closed" -> cmp_same_kind(sb.val, ob.val)
      [] sb.kind = "Closed" /\ ob.kind = "Open" ->
            IF le(sb.val, ob.val) THEN Some("Less") ELSE Some("Greater")
      [] sb.kind = "Open" /\ ob.kind = "Closed" ->
            IF lt(sb.val, ob.val) THEN Some("Less") ELSE Some("Greater")
      [] sb.kind = "Open" /\ ob.kind = "Open" -> cmp_same_kind(sb.val, ob.val)

\* The match of left_partial_cmp on (self_left_bound, other_left_bound)
left_bound_cmp(sb, ob) ==
    CASE sb.kind = "None" \/ ob.kind = "None" -> None
      [] sb.kind = "Unbounded" /\ ob.kind = "Unbounded" -> Some("Equal")
      [] sb.kind = "Unbounded" /\ HasVal(ob) -> Some("Less")
      [] HasVal(sb) /\ ob.kind = "Unbounded" -> Some("Greater")
      [] sb.kind = "Closed" /\ ob.kind = "Closed" -> cmp_same_kind(sb.val, ob.val)
      [] sb.kind = "Closed" /\ ob.kind = "Open" ->
            IF le(sb.val, ob.val) THEN Some("Less") ELSE Some("Greater")
      [] sb.kind = "Open" /\ ob.kind = "Closed" ->
            IF lt(sb.val, ob.val) THEN Some("Less") ELSE Some("Greater")
      [] sb.kind = "Open" /\ ob.kind = "Open" -> cmp_same_kind(sb.val, ob.val)

right_bound_cmp_lax_closed_open(sb, ob) ==
    CASE sb.kind = "None" \/ ob.kind = "None" -> None
      [] sb.kind = "Unbounded" /\ ob.kind = "Unbounded" -> Some("Equal")
      [] sb.kind = "Unbounded" /\ HasVal(ob) -> Some("Greater")
      [] HasVal(sb) /\ ob.kind = "Unbounded" -> Some("Less")
      [] sb.kind = "Closed" /\ ob.kind = "Closed" -> cmp_same_kind(sb.val, ob.val)
      [] sb.kind = "Closed" /\ ob.kind = "Open" ->
            IF le(sb.val, ob.val) THEN Some("Less") ELSE Some("Greater")
      [] sb.kind = "Open" /\ ob.kind = "Closed" ->
            IF le(sb.val, ob.val) THEN Some("Less") ELSE Some("Greater")
      [] sb.kind = "Open" /\ ob.kind = "Open" -> cmp_same_kind(sb.val, ob.val)

\* The match of right_partial_cmp on (self_right_bound, other_right_bound)
right_bound_cmp(sb, ob) ==
    CASE sb.kind = "None" \/ ob.kind = "None" -> None
      [] sb.kind = "Unbounded" /\ ob.kind = "Unbounded" -> Some("Equal")
      [] sb.kind = "Unbounded" /\ HasVal(ob) -> Some("Greater")
      [] HasVal(sb) /\ ob.kind = "Unbounded" -> Some("Less")
      [] sb.kind = "Closed" /\ ob.kind = "Closed" -> cmp_same_kind(sb.val, ob.val)
      [] sb.kind = "Closed" /\ ob.kind = "Open" ->
            IF lt(sb.val, ob.val) THEN Some("Less") ELSE Some("Greater")
      [] sb.kind = "Open" /\ ob.kind = "Closed" ->
            IF le(sb.val, ob.val) THEN Some("Less") ELSE Some("Greater")
      [] sb.kind = "Open" /\ ob.kind = "Open" -> cmp_same_kind(sb.val, ob.val)

left_partial_cmp(self, other) ==
    left_bound_cmp(left_bound(self), left_bound(other))

right_partial_cmp(self, other) ==
    right_bound_cmp(right_bound(self), right_bound(other))

\* ------------------------------------------------------------------------
\* Interval::intersect

select_left_least(self, other) ==
    IF left_partial_cmp(self, other) = Some("Less")
    THEN left_bound(self) ELSE left_bound(other)

\* left_bound: self's unless self's left bound is Less than other's
select_left(self, other) ==
    IF left_partial_cmp(self, other) # Some("Less")
    THEN left_bound(self) ELSE left_bound(other)

select_right_greatest(self, other) ==
    IF right_partial_cmp(self, other) = Some("Greater")
    THEN right_bound(self) ELSE right_bound(other)

\* right_bound: self's unless self's right bound is Greater than other's
select_right(self, other) ==
    IF right_partial_cmp(self, other) # Some("Greater")
    THEN right_bound(self) ELSE right_bound(other)

assemble_closed_tie(lb, rb) ==
    CASE lb.kind = "None" \/ rb.kind = "None" -> Empty
      [] lb.kind = "Closed" /\ rb.kind = "Closed" ->
            IF gt(lb.val, rb.val) THEN Empty
            ELSE Closed(BoundPair(lb.val, rb.val))
      [] lb.kind = "Open" /\ rb.kind = "Open" ->
            IF ge(lb.val, rb.val) THEN Empty
            ELSE Open(BoundPair(lb.val, rb.val))
      [] lb.kind = "Open" /\ rb.kind = "Closed" ->
            IF ge(lb.val, rb.val) THEN Empty
            ELSE LeftHalfOpen(BoundPair(lb.val, rb.val))
      [] lb.kind = "Closed" /\ rb.kind = "Open" ->
            IF ge(lb.val, rb.val) THEN Empty
            ELSE RightHalfOpen(BoundPair(lb.val, rb.val))
      [] lb.kind = "Unbounded" /\ rb.kind = "Closed" ->
            UnboundedClosedRight(rb.val)
      [] lb.kind = "Unbounded" /\ rb.kind = "Open" -> UnboundedOpenRight(rb.val)
      [] lb.kind = "Closed" /\ rb.kind = "Unbounded" ->
            UnboundedClosedLeft(lb.val)
      [] lb.kind = "Open" /\ rb.kind = "Unbounded" -> UnboundedOpenLeft(lb.val)
      [] lb.kind = "Unbounded" /\ rb.kind = "Unbounded" -> Unbounded

\* The match on (left_bound, right_bound) that builds the result
assemble(lb, rb) ==
    CASE lb.kind = "None" \/ rb.kind = "None" -> Empty
      [] lb.kind = "Closed" /\ rb.kind = "Closed" ->
            IF gt(lb.val, rb.val) THEN Empty
            ELSE IF eq(lb.val, rb.val) THEN Singleton(lb.val)
            ELSE Closed(BoundPair(lb.val, rb.val))
      [] lb.kind = "Open" /\ rb.kind = "Open" ->
            IF ge(lb.val, rb.val) THEN Empty
            ELSE Open(BoundPair(lb.val, rb.val))
      [] lb.kind = "Open" /\ rb.kind = "Closed" ->
            IF ge(lb.val, rb.val) THEN Empty
            ELSE LeftHalfOpen(BoundPair(lb.val, rb.val))
      [] lb.kind = "Closed" /\ rb.kind = "Open" ->
            IF ge(lb.val, rb.val) THEN Empty
            ELSE RightHalfOpen(BoundPair(lb.val, rb.val))
      [] lb.kind = "Unbounded" /\ rb.kind = "Closed" ->
            UnboundedClosedRight(rb.val)
      [] lb.kind = "Unbounded" /\ rb.kind = "Open" -> UnboundedOpenRight(rb.val)
      [] lb.kind = "Closed" /\ rb.kind = "Unbounded" ->
            UnboundedClosedLeft(lb.val)
      [] lb.kind = "Open" /\ rb.kind = "Unbounded" -> UnboundedOpenLeft(lb.val)
      [] lb.kind = "Unbounded" /\ rb.kind = "Unbounded" -> Unbounded

intersect_empty_neutral(self, other) ==
    IF self = Empty THEN other
    ELSE IF other = Empty THEN self
    ELSE assemble(select_left(self, other), select_right(self, other))

intersect(self, other) ==
    IF left_partial_cmp(self, other) = None
       \/ right_partial_cmp(self, other) = None
    THEN Empty
    ELSE assemble(select_left(self, other), select_right(self, other))

\* ------------------------------------------------------------------------
\* Interval::complement: the one or two intervals the iterator yields

complement_singleton_closed(self) ==
    CASE self.variant = "Closed" ->
            <<UnboundedOpenRight(self.bound_pair.left),
              UnboundedOpenLeft(self.bound_pair.right)>>
      [] self.variant = "Open" ->
            <<UnboundedClosedRight(self.bound_pair.left),
              UnboundedClosedLeft(self.bound_pair.right)>>
      [] self.variant = "LeftHalfOpen" ->
            <<UnboundedClosedRight(self.bound_pair.left),
              UnboundedOpenLeft(self.bound_pair.right)>>
      [] self.variant = "RightHalfOpen" ->
            <<UnboundedOpenRight(self.bound_pair.left),
              UnboundedClosedLeft(self.bound_pair.right)>>
      [] self.variant = "UnboundedClosedRight" ->
            <<UnboundedOpenLeft(self.right)>>
      [] self.variant = "UnboundedOpenRight" ->
            <<UnboundedClosedLeft(self.right)>>
      [] self.variant = "UnboundedClosedLeft" ->
            <<UnboundedOpenRight(self.left)>>
      [] self.variant = "UnboundedOpenLeft" ->
            <<UnboundedClosedRight(self.left)>>
      [] self.variant = "Singleton" ->
            <<UnboundedClosedRight(self.at), UnboundedClosedLeft(self.at)>>
      [] self.variant = "Unbounded" -> <<Empty>>
      [] self.variant = "Empty" -> <<Unbounded>>

complement(self) ==
    CASE self.variant = "Closed" ->
            <<UnboundedOpenRight(self.bound_pair.left),
              UnboundedOpenLeft(self.bound_pair.right)>>
      [] self.variant = "Open" ->
            <<UnboundedClosedRight(self.bound_pair.left),
              UnboundedClosedLeft(self.bound_pair.right)>>
      [] self.variant = "LeftHalfOpen" ->
            <<UnboundedClosedRight(self.bound_pair.left),
              UnboundedOpenLeft(self.bound_pair.right)>>
      [] self.variant = "RightHalfOpen" ->
            <<UnboundedOpenRight(self.bound_pair.left),
              UnboundedClosedLeft(self.bound_pair.right)>>
      [] self.variant = "UnboundedClosedRight" ->
            <<UnboundedOpenLeft(self.right)>>
      [] self.variant = "UnboundedOpenRight" ->
            <<UnboundedClosedLeft(self.right)>>
      [] self.variant = "UnboundedClosedLeft" ->
            <<UnboundedOpenRight(self.left)>>
      [] self.variant = "UnboundedOpenLeft" ->
            <<UnboundedClosedRight(self.left)>>
      [] self.variant = "Singleton" ->
            <<UnboundedOpenRight(self.at), UnboundedOpenLeft(self.at)>>
      [] self.variant = "Unbounded" -> <<Empty>>
      [] self.variant = "Empty" -> <<Unbounded>>

\* ------------------------------------------------------------------------
\* Interval::width

\* A call that did not return: the subtraction panicked
Panicked == [is_some |-> FALSE, panicked |-> TRUE]

sub_reversed(t, build, a, b) ==
    IF t \in IntTypes
    THEN IF b - a \in MinValue(t)..MaxValue(t)
         THEN [ok |-> TRUE, value |-> b - a]
         ELSE IF build = "debug" THEN [ok |-> FALSE]
         ELSE [ok |-> TRUE,
               value |-> ((b - a - MinValue(t)) % (2 ^ Bits)) + MinValue(t)]
    ELSE IF a = NaN \/ b = NaN THEN [ok |-> TRUE, value |-> NaN]
    ELSE [ok |-> TRUE, value |-> b - a]

\* T's subtraction a - b. On an integer domain a difference outside
\* MinValue..MaxValue panics where overflow checks are on and wraps modulo
\* 2^Bits where they are off. On f64 it is NaN if either operand is NaN. No
\* reachable u32 interval has its right value below its left one, so a - b
\* never leaves 0..MaxVal there.
sub(t, build, a, b) ==
    IF t \in IntTypes
    THEN IF a - b \in MinValue(t)..MaxValue(t)
         THEN [ok |-> TRUE, value |-> a - b]
         ELSE IF build = "debug" THEN [ok |-> FALSE]
         ELSE [ok |-> TRUE,
               value |-> ((a - b - MinValue(t)) % (2 ^ Bits)) + MinValue(t)]
    ELSE IF a = NaN \/ b = NaN THEN [ok |-> TRUE, value |-> NaN]
    ELSE [ok |-> TRUE, value |-> a - b]

width_closed_inclusive(t, build, self) ==
    LET lb == left_bound(self)
        rb == right_bound(self)
        returned(d) == IF d.ok THEN Some(d.value) ELSE Panicked
        inclusive(d) == IF d.ok THEN Some(d.value + 1) ELSE Panicked
    IN CASE lb.kind = "None" \/ rb.kind = "None" -> None
         [] lb.kind = "Unbounded" \/ rb.kind = "Unbounded" -> None
         [] lb.kind = "Closed" /\ rb.kind = "Closed" ->
               inclusive(sub(t, build, rb.val, lb.val))
         [] lb.kind = "Closed" /\ rb.kind = "Open" ->
               returned(sub(t, build, rb.val, lb.val))
         [] lb.kind = "Open" /\ rb.kind = "Closed" ->
               returned(sub(t, build, rb.val, lb.val))
         [] lb.kind = "Open" /\ rb.kind = "Open" ->
               returned(sub(t, build, rb.val, lb.val))

\* width: None for Empty or a side without value, Some(right - left) else
width(t, build, self) ==
    LET lb == left_bound(self)
        rb == right_bound(self)
        returned(d) == IF d.ok THEN Some(d.value) ELSE Panicked
    IN CASE lb.kind = "None" \/ rb.kind = "None" -> None
         [] lb.kind = "Unbounded" \/ rb.kind = "Unbounded" -> None
         [] lb.kind = "Closed" /\ rb.kind = "Closed" ->
               returned(sub(t, build, rb.val, lb.val))
         [] lb.kind = "Closed" /\ rb.kind = "Open" ->
               returned(sub(t, build, rb.val, lb.val))
         [] lb.kind = "Open" /\ rb.kind = "Closed" ->
               returned(sub(t, build, rb.val, lb.val))
         [] lb.kind = "Open" /\ rb.kind = "Open" ->
               returned(sub(t, build, rb.val, lb.val))

\* ------------------------------------------------------------------------
\* impl Display for Interval

\* {:?} of a scalar: the decimal digits of an integer; those of an f64
\* followed by ".0" (every modelled f64 is a whole number), and "NaN" for
\* f64::NAN
fmt_debug(t, v) ==
    IF t = "f64"
    THEN IF v = NaN THEN "NaN" ELSE ToString(v) \o ".0"
    ELSE ToString(v)

fmt_left_half_open_as_right(t, self) ==
    CASE self.variant = "Closed" ->
            "[" \o fmt_debug(t, self.bound_pair.left) \o ".."
                \o fmt_debug(t, self.bound_pair.right) \o "]"
      [] self.variant = "Open" ->
            "(" \o fmt_debug(t, self.bound_pair.left) \o ".."
                \o fmt_debug(t, self.bound_pair.right) \o ")"
      [] self.variant = "LeftHalfOpen" ->
            "[" \o fmt_debug(t, self.bound_pair.left) \o ".."
                \o fmt_debug(t, self.bound_pair.right) \o ")"
      [] self.variant = "RightHalfOpen" ->
            "[" \o fmt_debug(t, self.bound_pair.left) \o ".."
                \o fmt_debug(t, self.bound_pair.right) \o ")"
      [] self.variant = "UnboundedClosedRight" ->
            "(←.." \o fmt_debug(t, self.right) \o "]"
      [] self.variant = "UnboundedOpenRight" ->
            "(←.." \o fmt_debug(t, self.right) \o ")"
      [] self.variant = "UnboundedClosedLeft" ->
            "[" \o fmt_debug(t, self.left) \o "..→)"
      [] self.variant = "UnboundedOpenLeft" ->
            "(" \o fmt_debug(t, self.left) \o "..→)"
      [] self.variant = "Singleton" -> "[" \o fmt_debug(t, self.at) \o "]"
      [] self.variant = "Unbounded" -> "(←..→)"
      [] self.variant = "Empty" -> "Empty"

\* fmt: the text write! produces for each variant
fmt(t, self) ==
    CASE self.variant = "Closed" ->
            "[" \o fmt_debug(t, self.bound_pair.left) \o ".."
                \o fmt_debug(t, self.bound_pair.right) \o "]"
      [] self.variant = "Open" ->
            "(" \o fmt_debug(t, self.bound_pair.left) \o ".."
                \o fmt_debug(t, self.bound_pair.right) \o ")"
      [] self.variant = "LeftHalfOpen" ->
            "(" \o fmt_debug(t, self.bound_pair.left) \o ".."
                \o fmt_debug(t, self.bound_pair.right) \o "]"
      [] self.variant = "RightHalfOpen" ->
            "[" \o fmt_debug(t, self.bound_pair.left) \o ".."
                \o fmt_debug(t, self.bound_pair.right) \o ")"
      [] self.variant = "UnboundedClosedRight" ->
            "(←.." \o fmt_debug(t, self.right) \o "]"
      [] self.variant = "UnboundedOpenRight" ->
            "(←.." \o fmt_debug(t, self.right) \o ")"
      [] self.variant = "UnboundedClosedLeft" ->
            "[" \o fmt_debug(t, self.left) \o "..→)"
      [] self.variant = "UnboundedOpenLeft" ->
            "(" \o fmt_debug(t, self.left) \o "..→)"
      [] self.variant = "Singleton" -> "[" \o fmt_debug(t, self.at) \o "]"
      [] self.variant = "Unbounded" -> "(←..→)"
      [] self.variant = "Empty" -> "Empty"

\* #[derive(PartialEq)] on Interval and BoundPair: same variant and payloads
\* equal under T's ==
interval_eq(a, b) ==
    /\ a.variant = b.variant
    /\ CASE a.variant \in TwoSided ->
              /\ eq(a.bound_pair.left, b.bound_pair.left)
              /\ eq(a.bound_pair.right, b.bound_pair.right)
         [] a.variant \in RightOnly -> eq(a.right, b.right)
         [] a.variant \in LeftOnly -> eq(a.left, b.left)
         [] a.variant = "Singleton" -> eq(a.at, b.at)
         [] a.variant \in {"Unbounded", "Empty"} -> TRUE

\* The double complement as the test complement_symmetric_u32 computes it
double_complement(i) ==
    LET c == complement(i) IN
    IF Len(c) = 1
    THEN complement(c[1])[1]
    ELSE intersect(complement(c[1])[1], complement(c[2])[1])

\* ------------------------------------------------------------------------
\* The caller: two intervals in hand (i1 is the receiver of the calls, i2 the
\* argument) and the last call with what it returned.

\* Intervals built by struct literal from one scalar, or from none
Direct(t) ==
    {UnboundedClosedRight(a) : a \in Values(t)}
    \cup {UnboundedOpenRight(a) : a \in Values(t)}
    \cup {UnboundedClosedLeft(a) : a \in Values(t)}
    \cup {UnboundedOpenLeft(a) : a \in Values(t)}
    \cup {Singleton(a) : a \in Values(t)}
    \cup {Unbounded, Empty}

\* Every interval a caller can build: the two-sided ones only from a
\* BoundPair that BoundPair::new returned
Constructible(t) ==
    {Bounded(v, BoundPair_new(p[1], p[2]).value) :
        v \in TwoSided,
        p \in {q \in Values(t) \X Values(t) : BoundPair_new(q[1], q[2]).is_some}}
    \cup Direct(t)

Start ==
    /\ i1 = Unbounded
    /\ i2 = Unbounded
    /\ call = [op |-> "init"]

Init == T \in Types /\ Start

InitTotal == T = "u32" /\ Start

InitInt == T \in IntTypes /\ Start

\* Interval::V { bound_pair: BoundPair::new(l, r)? }
NewBounded(v, l, r) ==
    LET bp == BoundPair_new(l, r) IN
    /\ bp.is_some
    /\ i2' = Bounded(v, bp.value)
    /\ call' = [op |-> "construct"]
    /\ UNCHANGED <<T, i1>>

\* Interval::V { .. } of a one-sided variant, Singleton, Unbounded or Empty
NewDirect(iv) ==
    /\ i2' = iv
    /\ call' = [op |-> "construct"]
    /\ UNCHANGED <<T, i1>>

\* BoundPair::new(l, r) on its own
CallNew(l, r) ==
    /\ call' = [op |-> "new", left |-> l, right |-> r,
                ret |-> BoundPair_new(l, r)]
    /\ UNCHANGED <<T, i1, i2>>

\* Interval::V { bound_pair } with the pair the last BoundPair::new returned
Wrap(v) ==
    /\ call.op = "new"
    /\ call.ret.is_some
    /\ i2' = Bounded(v, call.ret.value)
    /\ call' = [op |-> "wrap"]
    /\ UNCHANGED <<T, i1>>

\* i1.contains(&i2)
CallContains ==
    /\ call' = [op |-> "contains", ret |-> contains(i1, i2)]
    /\ UNCHANGED <<T, i1, i2>>

\* i1.left_partial_cmp(&i2) and i1.right_partial_cmp(&i2)
CallPartialCmp ==
    /\ call' = [op |-> "partial_cmp",
                left |-> left_partial_cmp(i1, i2),
                right |-> right_partial_cmp(i1, i2)]
    /\ UNCHANGED <<T, i1, i2>>

\* i1.intersect(&i2)
CallIntersect ==
    /\ call' = [op |-> "intersect", ret |-> intersect(i1, i2)]
    /\ UNCHANGED <<T, i1, i2>>

\* i1.complement() or i2.complement(), the iterator drained
CallComplement(k) ==
    /\ call' = [op |-> "complement", recv |-> k,
                ret |-> complement(IF k = 1 THEN i1 ELSE i2)]
    /\ UNCHANGED <<T, i1, i2>>

\* The caller keeps what the last call returned: an intersection replaces
\* i1, a single complement replaces the interval it was taken of, the two
\* pieces of a complement replace i1 and i2.
Store ==
    /\ \/ /\ call.op = "intersect"
          /\ i1' = call.ret
          /\ UNCHANGED i2
       \/ /\ call.op = "complement"
          /\ Len(call.ret) = 2
          /\ i1' = call.ret[1]
          /\ i2' = call.ret[2]
       \/ /\ call.op = "complement"
          /\ Len(call.ret) = 1
          /\ call.recv = 1
          /\ i1' = call.ret[1]
          /\ UNCHANGED i2
       \/ /\ call.op = "complement"
          /\ Len(call.ret) = 1
          /\ call.recv = 2
          /\ i2' = call.ret[1]
          /\ UNCHANGED i1
    /\ call' = [op |-> "store"]
    /\ UNCHANGED T

\* i1.width() or i2.width(), in a debug or a release build
CallWidth(k) ==
    /\ \E build \in Builds :
          call' = [op |-> "width", recv |-> k, build |-> build,
                   ret |-> width(T, build, IF k = 1 THEN i1 ELSE i2)]
    /\ UNCHANGED <<T, i1, i2>>

\* format!("{}", i1) or format!("{}", i2)
CallDisplay(k) ==
    /\ call' = [op |-> "display", recv |-> k,
                ret |-> fmt(T, IF k = 1 THEN i1 ELSE i2)]
    /\ UNCHANGED <<T, i1, i2>>

\* it.next() on the iterator the last complement() returned: the next item
\* it holds, or None once it holds no more
CallNext ==
    /\ call.op \in {"complement", "next"}
    /\ LET it == IF call.op = "complement" THEN call.ret ELSE call.it
           n == IF call.op = "complement" THEN 0 ELSE call.n
       IN /\ n < MaxNext
          /\ call' = [op |-> "next", recv |-> call.recv, n |-> n + 1,
                      it |-> IF it = <<>> THEN it ELSE Tail(it),
                      ret |-> IF it = <<>> THEN None ELSE Some(Head(it))]
    /\ UNCHANGED <<T, i1, i2>>

Next ==
    \/ \E v \in TwoSided, l \in Values(T), r \in Values(T) : NewBounded(v, l, r)
    \/ \E iv \in Direct(T) : NewDirect(iv)
    \/ CallContains
    \/ CallPartialCmp
    \/ CallIntersect
    \/ \E k \in {1, 2} : CallComplement(k)
    \/ Store

\* Interval<T> over any T: PartialOrd
Spec == Init /\ [][Next]_vars

\* Interval<T> over a totally ordered T
SpecTotal == InitTotal /\ [][Next]_vars

NextBP ==
    \/ \E l \in Values(T), r \in Values(T) : CallNew(l, r)
    \/ \E v \in TwoSided : Wrap(v)

\* BoundPair::new and the literals built on what it returns
SpecBP == Init /\ [][NextBP]_vars

NextOne ==
    \/ \E v \in TwoSided, l \in Values(T), r \in Values(T) : NewBounded(v, l, r)
    \/ \E iv \in Direct(T) : NewDirect(iv)
    \/ \E k \in {1, 2} : CallComplement(k)
    \/ CallNext
    \/ \E k \in {1, 2} : CallWidth(k)
    \/ \E k \in {1, 2} : CallDisplay(k)

\* The operations on one interval, called on an interval as constructed
SpecOne == Init /\ [][NextOne]_vars

NextInt ==
    \/ \E v \in TwoSided, l \in Values(T), r \in Values(T) : NewBounded(v, l, r)
    \/ \E iv \in Direct(T) : NewDirect(iv)
    \/ \E k \in {1, 2} : CallWidth(k)

\* Interval<T>::width over an integer T with all its values
SpecInt == InitInt /\ [][NextInt]_vars

\* ------------------------------------------------------------------------
\* Properties

\* C1: BoundPair::new(a, b) returns a pair exactly when a < b strictly in
\* the domain's order, the pair's left() is then a and its right() b; for
\* a == b, a > b or an incomparable a or b (NaN) it returns None.
C1_NewIffStrictlyLess ==
    call.op = "new" =>
        LET a == call.left
            b == call.right
            strictly_less == a # NaN /\ b # NaN /\ a < b
        IN /\ call.ret.is_some <=> strictly_less
           /\ ~strictly_less => call.ret = None
           /\ call.ret.is_some =>
                 /\ left(call.ret.value) = a
                 /\ right(call.ret.value) = b

\* BoundPair::new has returned a pair
C1_Witness ==
    /\ call.op = "new"
    /\ call.left = 0
    /\ call.right = MaxVal
    /\ call.ret.is_some
    /\ left(call.ret.value) = 0

\* C2: every Closed, Open, LeftHalfOpen or RightHalfOpen interval the caller
\* holds or is handed by intersect or complement carries a bound pair with
\* left < right strictly, whatever one-sided and Singleton payloads
\* (NaN included) the caller started from.
C2_BoundPairInvariant ==
    LET valid(iv) ==
            iv.variant \in TwoSided =>
                lt(iv.bound_pair.left, iv.bound_pair.right)
    IN /\ valid(i1)
       /\ valid(i2)
       /\ call.op = "intersect" => valid(call.ret)
       /\ call.op = "complement" =>
             \A n \in 1..Len(call.ret) : valid(call.ret[n])

\* C3: when the left and right bounds intersect selects carry the same
\* value (the domain's ==), the result is Singleton at that value if both
\* are closed and Empty if one is open; intersect never returns a Closed
\* interval with equal endpoints; [a,b] /\ [b,c] = {b} and
\* (a,b) /\ (b,c) = Empty for a < b < c.
C3_TieCollapses ==
    LET lb == select_left(i1, i2)
        rb == select_right(i1, i2)
        r == intersect(i1, i2)
    IN /\ ( /\ i1 # Empty
            /\ i2 # Empty
            /\ HasVal(lb)
            /\ HasVal(rb)
            /\ eq(lb.val, rb.val) ) =>
              r = IF lb.kind = "Closed" /\ rb.kind = "Closed"
                  THEN Singleton(lb.val) ELSE Empty
       /\ ~( /\ r.variant = "Closed"
             /\ eq(r.bound_pair.left, r.bound_pair.right) )
       /\ \A a \in Values(T), b \in Values(T), c \in Values(T) :
             lt(a, b) /\ lt(b, c) =>
                /\ ( i1 = Closed(BoundPair(a, b))
                     /\ i2 = Closed(BoundPair(b, c)) ) => r = Singleton(b)
                /\ ( i1 = Open(BoundPair(a, b))
                     /\ i2 = Open(BoundPair(b, c)) ) => r = Empty

\* intersect has been called on two Closed intervals that touch in one point
C3_Witness ==
    /\ call.op = "intersect"
    /\ i1 = Closed(BoundPair(0, 1))
    /\ i2 = Closed(BoundPair(1, 2))
    /\ call.ret = Singleton(1)

C5_ContainsReflexive ==
    /\ \A iv \in {i1, i2} : iv # Empty => contains(iv, iv)
    /\ ~contains(Empty, Empty)

\* contains has been called on a Singleton and itself
C5_Witness ==
    /\ call.op = "contains"
    /\ i1.variant = "Singleton"
    /\ i2 = i1
    /\ call.ret = TRUE

\* C6: over a totally ordered domain contains is transitive: if i1 contains
\* i2 and i2 contains i3 then i1 contains i3, for every interval i3.
C6_ContainsTransitive ==
    \A i3 \in Constructible(T) :
        contains(i1, i2) /\ contains(i2, i3) => contains(i1, i3)

\* contains has answered true on two different intervals, and the inner one
\* contains a third
C6_Witness ==
    /\ call.op = "contains"
    /\ call.ret = TRUE
    /\ i1 # i2
    /\ \E i3 \in Constructible(T) :
          i3 # i2 /\ contains(i2, i3) /\ contains(i1, i3)

C8_IntersectCommutative ==
    intersect(i1, i2) = intersect(i2, i1)

\* intersect has returned an interval that is neither operand
C8_Witness ==
    /\ call.op = "intersect"
    /\ i1 # i2
    /\ call.ret \notin {Empty, i1, i2}
    /\ intersect(i2, i1) = call.ret

\* C9: Empty.intersect(I) and I.intersect(Empty) are Empty for every
\* interval I, Empty included.
C9_EmptyAbsorbs ==
    \A iv \in {i1, i2, Empty} :
        /\ intersect(Empty, iv) = Empty
        /\ intersect(iv, Empty) = Empty

\* intersect has been called on Empty and a Closed interval
C9_Witness ==
    /\ call.op = "intersect"
    /\ i1 = Empty
    /\ i2.variant = "Closed"
    /\ call.ret = Empty

\* C10 as stated: the double complement (the two pieces' complements
\* intersected when there are two) equals the interval, for every interval
\* of every variant.
C10_DoubleComplementAny ==
    \A iv \in {i1, i2} : interval_eq(double_complement(iv), iv)

\* C10 amended: the double complement equals the interval, for every
\* interval of every variant whose payload holds no incomparable value.
C10_DoubleComplementComparable ==
    LET payload(iv) ==
            CASE iv.variant \in TwoSided ->
                    {iv.bound_pair.left, iv.bound_pair.right}
              [] iv.variant \in RightOnly -> {iv.right}
              [] iv.variant \in LeftOnly -> {iv.left}
              [] iv.variant = "Singleton" -> {iv.at}
              [] iv.variant \in {"Unbounded", "Empty"} -> {}
    IN \A iv \in {i1, i2} :
          NaN \notin payload(iv) =>
             /\ double_complement(iv) = iv
             /\ interval_eq(double_complement(iv), iv)

\* the intersection that closes a double complement has been taken: i1 and
\* i2 are the complements of the two pieces of a Closed interval
C10_Witness ==
    /\ call.op = "intersect"
    /\ i1.variant = "UnboundedClosedLeft"
    /\ i2.variant = "UnboundedClosedRight"
    /\ call.ret.variant = "Closed"
    /\ double_complement(call.ret) = call.ret
    /\ complement(complement(call.ret)[1])[1] = i1
    /\ complement(complement(call.ret)[2])[1] = i2


\* C11: complement follows a fixed table and its iterator yields exactly one
\* or two intervals, the left piece first, and then ends: a two-sided
\* interval gives the two rays outside it with the openness of each end
\* flipped, Singleton{a} gives UnboundedOpenRight(a) then
\* UnboundedOpenLeft(a), a one-sided interval gives the opposite ray at the
\* same value with the openness flipped, Unbounded gives Empty and Empty
\* gives Unbounded; every later next() returns None.
C11_ComplementTable ==
    call.op \in {"complement", "next"} =>
        LET self == IF call.recv = 1 THEN i1 ELSE i2
            a == IF self.variant \in TwoSided THEN left(self.bound_pair)
                 ELSE IF self.variant \in RightOnly THEN self.right
                 ELSE IF self.variant \in LeftOnly THEN self.left
                 ELSE IF self.variant = "Singleton" THEN self.at
                 ELSE 0
            b == IF self.variant \in TwoSided THEN right(self.bound_pair)
                 ELSE a
            table ==
                CASE self.variant = "Closed" ->
                        <<[variant |-> "UnboundedOpenRight", right |-> a],
                          [variant |-> "UnboundedOpenLeft", left |-> b]>>
                  [] self.variant = "Open" ->
                        <<[variant |-> "UnboundedClosedRight", right |-> a],
                          [variant |-> "UnboundedClosedLeft", left |-> b]>>
                  [] self.variant = "LeftHalfOpen" ->
                        <<[variant |-> "UnboundedClosedRight", right |-> a],
                          [variant |-> "UnboundedOpenLeft", left |-> b]>>
                  [] self.variant = "RightHalfOpen" ->
                        <<[variant |-> "UnboundedOpenRight", right |-> a],
                          [variant |-> "UnboundedClosedLeft", left |-> b]>>
                  [] self.variant = "Singleton" ->
                        <<[variant |-> "UnboundedOpenRight", right |-> a],
                          [variant |-> "UnboundedOpenLeft", left |-> a]>>
                  [] self.variant = "UnboundedClosedRight" ->
                        <<[variant |-> "UnboundedOpenLeft", left |-> a]>>
                  [] self.variant = "UnboundedOpenRight" ->
                        <<[variant |-> "UnboundedClosedLeft", left |-> a]>>
                  [] self.variant = "UnboundedClosedLeft" ->
                        <<[variant |-> "UnboundedOpenRight", right |-> a]>>
                  [] self.variant = "UnboundedOpenLeft" ->
                        <<[variant |-> "UnboundedClosedRight", right |-> a]>>
                  [] self.variant = "Unbounded" -> <<[variant |-> "Empty"]>>
                  [] self.variant = "Empty" -> <<[variant |-> "Unbounded"]>>
        IN /\ call.op = "complement" => call.ret = table
           /\ call.op = "next" =>
                 /\ call.n <= Len(table) =>
                       /\ call.ret.is_some
                       /\ call.ret.value = table[call.n]
                 /\ call.n > Len(table) => ~call.ret.is_some

C11_Witness ==
    /\ i2 = LeftHalfOpen(BoundPair(1, 3))
    /\ call.op = "next"
    /\ call.recv = 2
    /\ call.n = 3
    /\ call.ret = None

\* C12: intersect never grows the width: for two intervals of the same
\* two-sided shape over the non-negative integers, whenever the width of
\* their intersection is defined it is at most the width of each operand.
C12_IntersectNeverGrows ==
    (i1.variant \in TwoSided /\ i2.variant = i1.variant) =>
        \A build \in Builds :
            LET w == width(T, build, intersect(i1, i2))
                w1 == width(T, build, i1)
                w2 == width(T, build, i2)
            IN w.is_some =>
                   /\ w1.is_some /\ w.value <= w1.value
                   /\ w2.is_some /\ w.value <= w2.value

C12_Witness ==
    /\ call.op = "intersect"
    /\ i1 = LeftHalfOpen(BoundPair(0, 2))
    /\ i2 = LeftHalfOpen(BoundPair(1, 3))
    /\ call.ret = LeftHalfOpen(BoundPair(1, 2))
    /\ width(T, "release", call.ret) = Some(1)
    /\ width(T, "release", i1) = Some(2)

C14_DisplayWirth ==
    call.op = "display" =>
        LET self == IF call.recv = 1 THEN i1 ELSE i2
            payload(x) ==
                IF x.variant \in TwoSided
                THEN <<x.bound_pair.left, x.bound_pair.right>>
                ELSE IF x.variant \in RightOnly THEN <<x.right>>
                ELSE IF x.variant \in LeftOnly THEN <<x.left>>
                ELSE IF x.variant = "Singleton" THEN <<x.at>>
                ELSE <<>>
            text(n) == fmt_debug(T, payload(self)[n])
            v == self.variant
        IN /\ v = "Closed" => call.ret = "[" \o text(1) \o ".." \o text(2) \o "]"
           /\ v = "Open" => call.ret = "(" \o text(1) \o ".." \o text(2) \o ")"
           /\ v = "LeftHalfOpen" =>
                 call.ret = "(" \o text(1) \o ".." \o text(2) \o "]"
           /\ v = "RightHalfOpen" =>
                 call.ret = "[" \o text(1) \o ".." \o text(2) \o ")"
           /\ v = "UnboundedClosedRight" => call.ret = "(←.." \o text(1) \o "]"
           /\ v = "UnboundedOpenRight" => call.ret = "(←.." \o text(1) \o ")"
           /\ v = "UnboundedClosedLeft" => call.ret = "[" \o text(1) \o "..→)"
           /\ v = "UnboundedOpenLeft" => call.ret = "(" \o text(1) \o "..→)"
           /\ v = "Singleton" => call.ret = "[" \o text(1) \o "]"
           /\ v = "Unbounded" => call.ret = "(←..→)"
           /\ v = "Empty" => call.ret = "Empty"
           /\ \A other \in Constructible(T) :
                 (other.variant # v /\ payload(other) = payload(self))
                     => fmt(T, other) # call.ret

C14_Witness ==
    /\ T = "f64"
    /\ call.op = "display"
    /\ call.recv = 2
    /\ i2 = LeftHalfOpen(BoundPair(1, 3))
    /\ call.ret = "(1.0..3.0]"
    /\ fmt(T, RightHalfOpen(BoundPair(1, 3))) = "[1.0..3.0)"

\* C15: left_partial_cmp and right_partial_cmp return no result whenever
\* self or other is Empty, Empty against Empty included, and return an
\* ordering for every pair of non-Empty intervals over a totally ordered
\* domain.
C15_CmpDefinedness ==
    call.op = "partial_cmp" =>
        /\ (i1 = Empty \/ i2 = Empty) =>
              /\ call.left = None
              /\ call.right = None
        /\ (i1 # Empty /\ i2 # Empty /\ NaN \notin Values(T)) =>
              /\ call.left.is_some
              /\ call.left.value \in {"Less", "Equal", "Greater"}
              /\ call.right.is_some
              /\ call.right.value \in {"Less", "Equal", "Greater"}

C15_Witness ==
    /\ T = "u32"
    /\ call.op = "partial_cmp"
    /\ i1 = Empty
    /\ i2 = Empty
    /\ call.left = None
    /\ call.right = None

\* C16: intersect returns Empty whenever the comparison of the operands'
\* left bounds or of their right bounds is undefined because the bound
\* values are incomparable (a NaN-like endpoint of either non-Empty
\* operand), not only when an operand is Empty.
C16_IncomparableGivesEmpty ==
    call.op = "intersect" =>
        LET incomparable(b1, b2) ==
                /\ HasVal(b1)
                /\ HasVal(b2)
                /\ partial_cmp(b1.val, b2.val) = None
        IN (/\ i1 # Empty
            /\ i2 # Empty
            /\ \/ incomparable(left_bound(i1), left_bound(i2))
               \/ incomparable(right_bound(i1), right_bound(i2)))
               => call.ret = Empty

\* C17: for non-Empty operands over a total order, intersect keeps self's
\* left bound unless other's is strictly greater and self's right bound
\* unless other's is strictly less, and the variant of the result follows
\* the kinds of the two chosen bounds: Closed/Closed gives Closed, Open/Open
\* Open, Open/Closed LeftHalfOpen, Closed/Open RightHalfOpen (each when the
\* left value is below the right one), Unbounded/Closed
\* UnboundedClosedRight, Unbounded/Open UnboundedOpenRight, Closed/Unbounded
\* UnboundedClosedLeft, Open/Unbounded UnboundedOpenLeft and
\* Unbounded/Unbounded Unbounded.
C17_IntersectSelection ==
    (call.op = "intersect" /\ i1 # Empty /\ i2 # Empty) =>
        LET \* where a bound lies on the line: a left Open(x) starts just
            \* after a left Closed(x), a right Open(x) ends just before a
            \* right Closed(x)
            lpos(b) == IF b.kind = "Unbounded" THEN -1
                       ELSE IF b.kind = "Closed" THEN 2 * b.val
                       ELSE 2 * b.val + 1
            rpos(b) == IF b.kind = "Unbounded" THEN 2 * MaxVal + 2
                       ELSE IF b.kind = "Closed" THEN 2 * b.val + 1
                       ELSE 2 * b.val
            l == IF lpos(left_bound(i2)) > lpos(left_bound(i1))
                 THEN left_bound(i2) ELSE left_bound(i1)
            r == IF rpos(right_bound(i2)) < rpos(right_bound(i1))
                 THEN right_bound(i2) ELSE right_bound(i1)
            pair == [left |-> l.val, right |-> r.val]
            k == <<l.kind, r.kind>>
            ret == call.ret
        IN /\ (k = <<"Closed", "Closed">> /\ l.val < r.val) =>
                 ret = [variant |-> "Closed", bound_pair |-> pair]
           /\ (k = <<"Open", "Open">> /\ l.val < r.val) =>
                 ret = [variant |-> "Open", bound_pair |-> pair]
           /\ (k = <<"Open", "Closed">> /\ l.val < r.val) =>
                 ret = [variant |-> "LeftHalfOpen", bound_pair |-> pair]
           /\ (k = <<"Closed", "Open">> /\ l.val < r.val) =>
                 ret = [variant |-> "RightHalfOpen", bound_pair |-> pair]
           /\ k = <<"Unbounded", "Closed">> =>
                 ret = [variant |-> "UnboundedClosedRight", right |-> r.val]
           /\ k = <<"Unbounded", "Open">> =>
                 ret = [variant |-> "UnboundedOpenRight", right |-> r.val]
           /\ k = <<"Closed", "Unbounded">> =>
                 ret = [variant |-> "UnboundedClosedLeft", left |-> l.val]
           /\ k = <<"Open", "Unbounded">> =>
                 ret = [variant |-> "UnboundedOpenLeft", left |-> l.val]
           /\ k = <<"Unbounded", "Unbounded">> => ret = [variant |-> "Unbounded"]

C17_Witness ==
    /\ call.op = "intersect"
    /\ i1 = RightHalfOpen(BoundPair(1, 3))
    /\ i2 = LeftHalfOpen(BoundPair(0, 2))
    /\ call.ret = Closed(BoundPair(1, 2))

\* C18: over a total order intersect is the greatest lower bound under
\* contains: with R = I1.intersect(I2), if R is not Empty then I1 contains R
\* and I2 contains R, and every interval J that both I1 and I2 contain is
\* contained in R.
C18_IntersectGreatestLowerBound ==
    call.op = "intersect" =>
        LET R == call.ret IN
        /\ R # Empty => (contains(i1, R) /\ contains(i2, R))
        /\ \A J \in Constructible(T) :
              (contains(i1, J) /\ contains(i2, J)) => contains(R, J)

C18_Witness ==
    /\ call.op = "intersect"
    /\ i1 = RightHalfOpen(BoundPair(0, 2))
    /\ i2 = UnboundedOpenLeft(0)
    /\ call.ret = Open(BoundPair(0, 2))
    /\ contains(i1, Singleton(1))
    /\ contains(i2, Singleton(1))
    /\ contains(call.ret, Singleton(1))

\* C19: over a total order I1.contains(I2) holds exactly when
\* I1.left_partial_cmp(I2) is Less or Equal and I1.right_partial_cmp(I2) is
\* Greater or Equal; a comparison without result counts as not satisfied.
C19_ContainsIffBoundOrder ==
    call.op \in {"contains", "partial_cmp"} =>
        LET holds == IF call.op = "contains" THEN call.ret
                     ELSE contains(i1, i2)
            lcmp == IF call.op = "partial_cmp" THEN call.left
                    ELSE left_partial_cmp(i1, i2)
            rcmp == IF call.op = "partial_cmp" THEN call.right
                    ELSE right_partial_cmp(i1, i2)
        IN holds <=> (/\ lcmp \in {Some("Less"), Some("Equal")}
                      /\ rcmp \in {Some("Greater"), Some("Equal")})

C19_Witness ==
    /\ call.op = "contains"
    /\ call.ret = TRUE
    /\ i1 = RightHalfOpen(BoundPair(1, 3))
    /\ i2 = Open(BoundPair(1, 3))
    /\ left_partial_cmp(i1, i2) = Some("Less")
    /\ right_partial_cmp(i1, i2) = Some("Equal")

\* C20: the bound ordering over a total order, for non-Empty intervals. Left
\* bounds: Unbounded against Unbounded is Equal, Unbounded is Less than any
\* bounded one and a bounded one Greater than Unbounded; two of the same
\* kind compare by value; Closed(x) against Open(y) is Less if x <= y, else
\* Greater; Open(x) against Closed(y) is Less if x < y, else Greater. Right
\* bounds: Unbounded against Unbounded is Equal, Unbounded is Greater than
\* any bounded one and a bounded one Less than Unbounded; two of the same
\* kind compare by value; Closed(x) against Open(y) is Less if x < y, else
\* Greater; Open(x) against Closed(y) is Less if x <= y, else Greater. Two
\* bounds of different kinds are never Equal.
C20_BoundOrderingTable ==
    (call.op = "partial_cmp" /\ i1 # Empty /\ i2 # Empty) =>
        LET by_value(x, y) == IF x < y THEN "Less"
                              ELSE IF x > y THEN "Greater" ELSE "Equal"
            sl == left_bound(i1)
            ol == left_bound(i2)
            sr == right_bound(i1)
            or == right_bound(i2)
            kl == <<sl.kind, ol.kind>>
            kr == <<sr.kind, or.kind>>
        IN /\ call.left.is_some
           /\ call.right.is_some
           /\ kl = <<"Unbounded", "Unbounded">> => call.left.value = "Equal"
           /\ (sl.kind = "Unbounded" /\ HasVal(ol)) => call.left.value = "Less"
           /\ (HasVal(sl) /\ ol.kind = "Unbounded") =>
                 call.left.value = "Greater"
           /\ kl \in {<<"Closed", "Closed">>, <<"Open", "Open">>} =>
                 call.left.value = by_value(sl.val, ol.val)
           /\ kl = <<"Closed", "Open">> =>
                 call.left.value =
                     IF sl.val <= ol.val THEN "Less" ELSE "Greater"
           /\ kl = <<"Open", "Closed">> =>
                 call.left.value = IF sl.val < ol.val THEN "Less" ELSE "Greater"
           /\ kr = <<"Unbounded", "Unbounded">> => call.right.value = "Equal"
           /\ (sr.kind = "Unbounded" /\ HasVal(or)) =>
                 call.right.value = "Greater"
           /\ (HasVal(sr) /\ or.kind = "Unbounded") => call.right.value = "Less"
           /\ kr \in {<<"Closed", "Closed">>, <<"Open", "Open">>} =>
                 call.right.value = by_value(sr.val, or.val)
           /\ kr = <<"Closed", "Open">> =>
                 call.right.value = IF sr.val < or.val THEN "Less" ELSE "Greater"
           /\ kr = <<"Open", "Closed">> =>
                 call.right.value =
                     IF sr.val <= or.val THEN "Less" ELSE "Greater"
           /\ sl.kind # ol.kind => call.left.value # "Equal"
           /\ sr.kind # or.kind => call.right.value # "Equal"

C20_Witness ==
    /\ call.op = "partial_cmp"
    /\ i1 = Closed(BoundPair(1, 2))
    /\ i2 = Open(BoundPair(1, 2))
    /\ call.left = Some("Less")
    /\ call.right = Some("Greater")

\* C21 as stated: width never fails on a well-formed interval over a bounded
\* integer domain, signed or unsigned: for every Closed, Open,
\* LeftHalfOpen, RightHalfOpen or Singleton interval it returns the exact
\* mathematical difference right - left, the subtraction neither
\* overflowing nor aborting.
C21_WidthExact ==
    call.op = "width" =>
        LET self == IF call.recv = 1 THEN i1 ELSE i2 IN
        /\ self.variant \in TwoSided =>
              call.ret =
                  Some(right(self.bound_pair) - left(self.bound_pair))
        /\ self.variant = "Singleton" => call.ret = Some(0)

\* C21 amended: width returns the exact difference right - left over an
\* unsigned domain, and over a signed one whenever that difference is at
\* most the largest value of the domain; a wider signed interval makes the
\* subtraction overflow, which aborts the call where overflow checks are on
\* and returns the difference wrapped where they are off.
C21_WidthExactIfRepresentable ==
    call.op = "width" =>
        LET self == IF call.recv = 1 THEN i1 ELSE i2
            d == right(self.bound_pair) - left(self.bound_pair)
        IN
        /\ (self.variant \in TwoSided /\ (T = "unsigned" \/ d <= MaxValue(T)))
              => call.ret = Some(d)
        /\ (self.variant \in TwoSided /\ T = "signed" /\ d > MaxValue(T)) =>
              /\ call.build = "debug" => call.ret = Panicked
              /\ call.build = "release" => call.ret = Some(d - 2 ^ Bits)
        /\ self.variant = "Singleton" => call.ret = Some(0)

C21_Witness ==
    /\ T = "signed"
    /\ call.op = "width"
    /\ call.recv = 2
    /\ i2 = RightHalfOpen(BoundPair(-2, 1))
    /\ call.ret = Some(3)

\* C22: intersect computes the pointwise set intersection over a total
\* order: with v in Closed[a,b] iff a <= v <= b, in Open(a,b) iff a < v < b,
\* in LeftHalfOpen iff a < v <= b, in RightHalfOpen iff a <= v < b, in
\* UnboundedClosedRight(a) iff v <= a, in UnboundedOpenRight(a) iff v < a,
\* in UnboundedClosedLeft(a) iff v >= a, in UnboundedOpenLeft(a) iff v > a,
\* in Singleton{a} iff v = a, in Unbounded always and in Empty never, a
\* value v is in I1.intersect(I2) exactly when it is in I1 and in I2.
C22_IntersectPointwise ==
    call.op = "intersect" =>
        LET
            \* v = p / 2 lies in x: p ranges over the scalars (even p) and
            \* the points between and beyond them (odd p)
            in(p, x) ==
                LET v == x.variant
                    a == IF v \in TwoSided THEN 2 * x.bound_pair.left
                         ELSE IF v \in RightOnly THEN 2 * x.right
                         ELSE IF v \in LeftOnly THEN 2 * x.left
                         ELSE IF v = "Singleton" THEN 2 * x.at
                         ELSE 0
                    b == IF v \in TwoSided THEN 2 * x.bound_pair.right ELSE a
                IN CASE v = "Closed" -> a <= p /\ p <= b
                     [] v = "Open" -> a < p /\ p < b
                     [] v = "LeftHalfOpen" -> a < p /\ p <= b
                     [] v = "RightHalfOpen" -> a <= p /\ p < b
                     [] v = "UnboundedClosedRight" -> p <= a
                     [] v = "UnboundedOpenRight" -> p < a
                     [] v = "UnboundedClosedLeft" -> p >= a
                     [] v = "UnboundedOpenLeft" -> p > a
                     [] v = "Singleton" -> p = a
                     [] v = "Unbounded" -> TRUE
                     [] v = "Empty" -> FALSE
            Points == (-1)..(2 * MaxVal + 1)
        IN \A p \in Points :
               in(p, call.ret) <=> (in(p, i1) /\ in(p, i2))

C22_Witness ==
    /\ call.op = "intersect"
    /\ i1 = RightHalfOpen(BoundPair(0, 2))
    /\ i2 = LeftHalfOpen(BoundPair(1, 3))
    /\ call.ret = Open(BoundPair(1, 2))

\* C23: over a total order the pieces of a complement partition the rest of
\* the domain: every value v lies in exactly one of I and the intervals
\* I.complement() yields, and I.intersect(P) == Empty for every yielded
\* piece P.
C23_ComplementPartitions ==
    call.op = "complement" =>
        LET
            \* v = p / 2 lies in x: p ranges over the scalars (even p) and
            \* the points between and beyond them (odd p)
            in(p, x) ==
                LET v == x.variant
                    a == IF v \in TwoSided THEN 2 * x.bound_pair.left
                         ELSE IF v \in RightOnly THEN 2 * x.right
                         ELSE IF v \in LeftOnly THEN 2 * x.left
                         ELSE IF v = "Singleton" THEN 2 * x.at
                         ELSE 0
                    b == IF v \in TwoSided THEN 2 * x.bound_pair.right ELSE a
                IN CASE v = "Closed" -> a <= p /\ p <= b
                     [] v = "Open" -> a < p /\ p < b
                     [] v = "LeftHalfOpen" -> a < p /\ p <= b
                     [] v = "RightHalfOpen" -> a <= p /\ p < b
                     [] v = "UnboundedClosedRight" -> p <= a
                     [] v = "UnboundedOpenRight" -> p < a
                     [] v = "UnboundedClosedLeft" -> p >= a
                     [] v = "UnboundedOpenLeft" -> p > a
                     [] v = "Singleton" -> p = a
                     [] v = "Unbounded" -> TRUE
                     [] v = "Empty" -> FALSE
            Points == (-1)..(2 * MaxVal + 1)
            I == IF call.recv = 1 THEN i1 ELSE i2
            parts == <<I>> \o call.ret
        IN /\ \A p \in Points :
                 Cardinality({n \in DOMAIN parts : in(p, parts[n])}) = 1
           /\ \A n \in DOMAIN call.ret :
                 interval_eq(intersect(I, call.ret[n]), Empty)

C23_Witness ==
    /\ call.op = "complement"
    /\ call.recv = 2
    /\ i2 = LeftHalfOpen(BoundPair(1, 2))
    /\ call.ret = <<UnboundedClosedRight(1), UnboundedOpenLeft(2)>>
    /\ intersect(i2, UnboundedClosedRight(1)) = Empty
    /\ intersect(i2, UnboundedOpenLeft(2)) = Empty

\* C24: over a total order containment is characterised by intersection:
\* for every I1 and every non-Empty I2, I1.contains(I2) is true exactly when
\* I1.intersect(I2) == I2; in particular I.intersect(I) == I and
\* I.intersect(Unbounded) == I for non-Empty I.
C24_ContainsIffIntersectIsOther ==
    (call.op \in {"contains", "intersect"} /\ i2 # Empty) =>
        LET holds == IF call.op = "contains" THEN call.ret
                     ELSE contains(i1, i2)
            meet == IF call.op = "intersect" THEN call.ret
                    ELSE intersect(i1, i2)
        IN /\ holds <=> interval_eq(meet, i2)
           /\ i1 = i2 => interval_eq(meet, i1)
           /\ interval_eq(intersect(i2, Unbounded), i2)

C24_Witness ==
    /\ call.op = "intersect"
    /\ i1 = Closed(BoundPair(0, 3))
    /\ i2 = RightHalfOpen(BoundPair(1, 2))
    /\ call.ret = i2
    /\ contains(i1, i2)

\* C25: over a total order intersect is associative under structural
\* equality: I1.intersect(I2).intersect(I3) == I1.intersect(I2.intersect(I3))
\* for all intervals, so folding intersect over a sequence of intervals
\* gives a result independent of grouping and of order.
C25_IntersectAssociative ==
    call.op = "intersect" =>
        \A i3 \in Constructible(T) :
            LET grouped_left == intersect(call.ret, i3)
            IN /\ interval_eq(grouped_left, intersect(i1, intersect(i2, i3)))
               /\ interval_eq(grouped_left, intersect(intersect(i3, i2), i1))
               /\ interval_eq(grouped_left, intersect(i2, intersect(i3, i1)))

C25_Witness ==
    /\ call.op = "intersect"
    /\ i1 = Closed(BoundPair(0, 2))
    /\ i2 = Open(BoundPair(1, 3))
    /\ call.ret = LeftHalfOpen(BoundPair(1, 2))
    /\ intersect(call.ret, UnboundedOpenRight(2)) = Open(BoundPair(1, 2))
    /\ intersect(i1, intersect(i2, UnboundedOpenRight(2)))
           = Open(BoundPair(1, 2))

\* C26: over a total order contains is antisymmetric up to structural
\* equality: if I1.contains(I2) and I2.contains(I1) then I1 == I2, the same
\* variant with the same payload.
C26_ContainsAntisymmetric ==
    (call.op = "contains" /\ call.ret /\ contains(i2, i1)) =>
        /\ i1.variant = i2.variant
        /\ interval_eq(i1, i2)
        /\ i1 = i2

C26_Witness ==
    /\ call.op = "contains"
    /\ call.ret = TRUE
    /\ contains(i2, i1)
    /\ i1 = LeftHalfOpen(BoundPair(1, 3))
    /\ i2 = i1

\* C27: over a total order the bound comparisons are antisymmetric under
\* operand swap: I2.left_partial_cmp(I1) is the reverse of
\* I1.left_partial_cmp(I2) (Less for Greater, Greater for Less, Equal for
\* Equal, no result for no result), and likewise for right_partial_cmp.
C27_CmpReversesUnderSwap ==
    call.op = "partial_cmp" =>
        LET reverse(o) == IF o = Some("Less") THEN Some("Greater")
                          ELSE IF o = Some("Greater") THEN Some("Less")
                          ELSE o
        IN /\ left_partial_cmp(i2, i1) = reverse(call.left)
           /\ right_partial_cmp(i2, i1) = reverse(call.right)

C27_Witness ==
    /\ call.op = "partial_cmp"
    /\ i1 = Closed(BoundPair(1, 2))
    /\ i2 = Open(BoundPair(1, 2))
    /\ call.left = Some("Less")
    /\ left_partial_cmp(i2, i1) = Some("Greater")
    /\ call.right = Some("Greater")
    /\ right_partial_cmp(i2, i1) = Some("Less")
====
